---------------------------- MODULE Spec2Model ----------------------------
(***************************************************************************)
(* State-machine model of the solar-system scene of src/js/script.js       *)
(* (src/unnamed/part_000 is the commented copy of the same program).       *)
(*                                                                         *)
(* Units.  JavaScript numbers are modelled as exact fixed-point integers:  *)
(*   angles and angular speeds  : 1/1000 rad   (0.018 rad/s  -> 18)        *)
(*   lengths                    : 1/10         (11 -> 110, 1.8 -> 18)      *)
(*   elapsed time (clock delta) : whole seconds                            *)
(* Floating-point rounding is not modelled.                                *)
(*                                                                         *)
(* A world position is kept symbolically as [r, theta]: the point          *)
(* (r, 0, 0) turned by theta about the vertical (y) axis.                  *)
(***************************************************************************)
EXTENDS Integers, Sequences, FiniteSets, TLC

\* ------------------------------------------------------------- bounds
\* the window's innerWidth and innerHeight range over 1..MaxDim
MaxDim == 2
\* the host's clock advances by 0..MaxDelta seconds between two frames
MaxDelta == 2
\* animate runs at most MaxTicks times
MaxTicks == 3
\* Math.random() returns one of 0/RandomSteps .. (RandomSteps-1)/RandomSteps
RandomSteps == 2

\* ---------------------------------------------------- program constants
\* Math.PI * 2 and Math.PI / 2, in 1/1000 rad
TwoPi == 6283
HalfPi == 1571
\* the "* 5" of the spin and the orbit update
SpeedScale == 5
\* segments of an orbit line
Segments == 64
\* 1.8, in tenths: the meteor's distance beyond the Earth
MeteorOffset == 18

\* JavaScript's undefined, as the result of Array.prototype.find on a miss
Undefined == 0
\* the scene root as a parent
SceneRoot == 0

VARIABLES solarData, planets, objects, camera, renderer, controls, clock,
          window, rafPending, random, started, error, lastEvent

vars == <<solarData, planets, objects, camera, renderer, controls, clock,
          window, rafPending, random, started, error, lastEvent>>

\* ------------------------------------------------------------ catalog
Sun == [name |-> "Sun", distance |-> 0, orbitSpeed |-> 0, rotationSpeed |-> 5]
Earth == [name |-> "Earth", distance |-> 110, orbitSpeed |-> 18, rotationSpeed |-> 30]

\* const solarData = [ Sun, Earth ]
SolarData == <<Sun, Earth>>

\* data of the meteor pushed by createAsteroids: it has no distance field
meteorDataWithDistance == [name |-> "Halley", distance |-> Earth.distance + MeteorOffset,
                           orbitSpeed |-> 30, rotationSpeed |-> 80, isAsteroid |-> TRUE]
meteorData == [name |-> "Halley", orbitSpeed |-> 30, rotationSpeed |-> 80, isAsteroid |-> TRUE]

\* ------------------------------------------------------------- helpers
\* data.distance > 0, where a missing field reads undefined and
\* undefined > 0 is false
DistanceGT0Lax(data) == IF "distance" \in DOMAIN data THEN data.distance > 0 ELSE TRUE
DistanceGT0(data) == IF "distance" \in DOMAIN data THEN data.distance > 0 ELSE FALSE

\* planets.find(p => p.data.name === name): the index of the first match,
\* Undefined when there is none
find(ps, name) ==
    LET hits == {i \in 1..Len(ps) : ps[i].data.name = name}
    IN IF hits = {} THEN Undefined
       ELSE CHOOSE i \in hits : \A j \in hits : i <= j

RECURSIVE GCD(_, _)
GCD(a, b) == IF b = 0 THEN a ELSE GCD(b, a % b)

\* the quotient w / h, kept as the fraction in lowest terms
Ratio(w, h) == <<w \div GCD(w, h), h \div GCD(w, h)>>

\* Math.random() * Math.PI * 2 for the draw k / RandomSteps
RandomAngle(k) == (k * TwoPi) \div RandomSteps

\* new THREE.Vector3(): the origin
Origin == [r |-> 0, theta |-> 0]

\* the sum of rotation.y over the ancestors of object id
RECURSIVE AncestorRotY(_, _)
AncestorRotY(objs, id) ==
    IF objs[id].parent = SceneRoot THEN 0
    ELSE objs[objs[id].parent].rotY + AncestorRotY(objs, objs[id].parent)

\* Object3D.getWorldPosition: the local offset (px, 0, 0) carried through
\* the (current) rotations of the ancestor chain
getWorldPosition(objs, id) ==
    IF objs[id].px = 0 THEN Origin
    ELSE [r |-> objs[id].px, theta |-> AncestorRotY(objs, id)]

\* cos and sin at the quarter turns of the orbit line, i in 0..Segments
CosQ(i) == LET q == ((4 * i) \div Segments) % 4
           IN IF q = 0 THEN 1 ELSE IF q = 2 THEN -1 ELSE 0
SinQ(i) == LET q == ((4 * i) \div Segments) % 4
           IN IF q = 1 THEN 1 ELSE IF q = 3 THEN -1 ELSE 0

\* the orbit line's points (radius cos a, 0, radius sin a); of the
\* Segments + 1 points the model keeps those at the quarter turns, where
\* cos and sin are integers
QuarterIndexes == <<0, Segments \div 4, Segments \div 2, (3 * Segments) \div 4, Segments>>
ringPoints(radius) ==
    [k \in 1..Len(QuarterIndexes) |->
        <<radius * CosQ(QuarterIndexes[k]), 0, radius * SinQ(QuarterIndexes[k])>>]

\* a point turned about the x axis by rotation.x (0 or a quarter turn):
\* (x, y, z) -> (x, y cos a - z sin a, y sin a + z cos a)
RotateX(p, a) == IF a = HalfPi THEN <<p[1], -p[3], p[2]>> ELSE p

\* the world-space vertices of an orbit line (its parent is the scene root)
worldVertices(o) == [k \in 1..Len(o.points) |-> RotateX(o.points[k], o.rotX)]


\* -------------------------------------------------------- scene objects
\* an Object3D: parent is the index of its parent in objects (SceneRoot
\* for the scene), px is position.x, rotX / rotY are rotation.x / rotation.y
Node(type, name, material, parent, px, rotX, rotY, points) ==
    [type |-> type, name |-> name, material |-> material, parent |-> parent,
     px |-> px, rotX |-> rotX, rotY |-> rotY, points |-> points]

createBodyMeshInScene(objs, data, draw) ==
    LET meshId == Len(objs) + 1
        groupId == Len(objs) + 2
        material == IF data.name = "Sun" THEN "MeshBasicMaterial"
                    ELSE "MeshPhongMaterial"
        mesh == Node("Mesh", data.name, material, SceneRoot, data.distance, 0, 0, <<>>)
        orbitGroup == Node("Group", "", "", SceneRoot, 0, 0, RandomAngle(draw), <<>>)
    IN [objects |-> objs \o <<mesh, orbitGroup>>,
        body |-> [mesh |-> meshId, orbitGroup |-> groupId, data |-> data]]

\* createBody: the mesh, and its orbit group turned to a random angle;
\* the mesh is added to the group at x = data.distance, the group to the scene
createBody(objs, data, draw) ==
    LET meshId == Len(objs) + 1
        groupId == Len(objs) + 2
        material == IF data.name = "Sun" THEN "MeshBasicMaterial"
                    ELSE "MeshPhongMaterial"
        mesh == Node("Mesh", data.name, material, groupId, data.distance, 0, 0, <<>>)
        orbitGroup == Node("Group", "", "", SceneRoot, 0, 0, RandomAngle(draw), <<>>)
    IN [objects |-> objs \o <<mesh, orbitGroup>>,
        body |-> [mesh |-> meshId, orbitGroup |-> groupId, data |-> data]]

\* the orbit line of one body: a LineLoop through the points of the circle,
\* with rotation.x = Math.PI / 2, added to the scene
orbitLine(radius) ==
    Node("LineLoop", "", "LineBasicMaterial", SceneRoot, 0, HalfPi, 0, ringPoints(radius))

\* the callback of solarData.forEach: create the body, push it, and add
\* the orbit line when data.distance > 0
buildEntry(s, data, draw) ==
    LET b == createBody(s.objects, data, draw)
        s1 == [s EXCEPT !.objects = b.objects, !.planets = Append(@, b.body)]
    IN IF data.distance > 0
       THEN [s1 EXCEPT !.objects = Append(@, orbitLine(data.distance))]
       ELSE s1

RECURSIVE forEachData(_, _, _, _)
forEachData(s, cat, draws, k) ==
    IF k > Len(cat) THEN s
    ELSE forEachData(buildEntry(s, cat[k], draws[k]), cat, draws, k + 1)

\* asteroid.position.x = earthData.data.distance + 1.8
asteroidPositionXNoDistance(earthData) == MeteorOffset
asteroidPositionX(earthData) == earthData.data.distance + MeteorOffset

\* createAsteroids(earthData): the meteor's mesh is added to the Earth's
\* orbit group and pushed with that same group.  Reading a property of
\* undefined throws a TypeError: error.
createAsteroids(s, earth) ==
    IF earth = Undefined THEN [s EXCEPT !.error = TRUE]
    ELSE LET earthData == s.planets[earth]
             earthOrbitGroup == earthData.orbitGroup
             id == Len(s.objects) + 1
             asteroid == Node("Mesh", "", "MeshPhongMaterial", earthOrbitGroup,
                              asteroidPositionX(earthData), 0, 0, <<>>)
         IN [s EXCEPT !.objects = Append(@, asteroid),
                      !.planets = Append(@, [mesh |-> id,
                                             orbitGroup |-> earthOrbitGroup,
                                             data |-> meteorData])]

\* the end of createSolarSystem: find the Earth and, if found, add the meteor
attachMeteorUnguarded(s) == createAsteroids(s, find(s.planets, "Earth"))
attachMeteor(s) ==
    LET earth == find(s.planets, "Earth")
    IN IF earth # Undefined THEN createAsteroids(s, earth) ELSE s

createSolarSystem(s, cat, draws) == attachMeteor(forEachData(s, cat, draws, 1))

\* if (earthBody && earthBody.mesh) earthBody.mesh.getWorldPosition(controls.target)
initTarget(s) ==
    LET earthBody == find(s.planets, "Earth")
    IN IF earthBody # Undefined
       THEN [s EXCEPT !.controls.target = getWorldPosition(s.objects, s.planets[earthBody].mesh)]
       ELSE s

\* init(): camera and renderer from the window's size, the controls (whose
\* constructor runs update() once, on the target at the origin), the solar
\* system, and the first target
init(cat, draws, W, H) ==
    LET s0 == [planets |-> <<>>,
               objects |-> <<>>,
               camera |-> [aspect |-> Ratio(W, H), projection |-> Ratio(W, H),
                           lookAt |-> Origin],
               renderer |-> [width |-> W, height |-> H, frame |-> 0,
                             drawn |-> [lookAt |-> Origin, world |-> <<>>]],
               controls |-> [target |-> Origin, updates |-> 0],
               clock |-> [running |-> FALSE, elapsedTime |-> 0],
               window |-> [innerWidth |-> W, innerHeight |-> H],
               rafPending |-> 0,
               error |-> FALSE]
    IN initTarget(createSolarSystem(s0, cat, draws))

\* ------------------------------------------------------------- animate
\* requestAnimationFrame(animate): one more callback is pending
requestAnimationFrameTwice(s) == [s EXCEPT !.rafPending = @ + 2]
requestAnimationFrame(s) == [s EXCEPT !.rafPending = @ + 1]

\* clock.getDelta(): the first call starts the clock and returns 0; later
\* calls return the time since the previous call and add it to elapsedTime
getDelta(s, hostDelta) == IF s.clock.running THEN hostDelta ELSE 0
tickClock(s, hostDelta) ==
    [s EXCEPT !.clock = [running |-> TRUE,
                         elapsedTime |-> @.elapsedTime + getDelta(s, hostDelta)]]

\* data.rotationSpeed * delta * 5 and data.orbitSpeed * delta * 5
spinStep(data, delta) == data.rotationSpeed * delta * SpeedScale
orbitStepUnscaled(data, delta) == data.orbitSpeed * delta
orbitStep(data, delta) == data.orbitSpeed * delta * SpeedScale

\* the callback of planets.forEach
updateBody(s, i, delta) ==
    LET body == s.planets[i]
        spun == [s.objects EXCEPT ![body.mesh].rotY = @ + spinStep(body.data, delta)]
    IN IF DistanceGT0(body.data)
       THEN [s EXCEPT !.objects =
                [spun EXCEPT ![body.orbitGroup].rotY = @ + orbitStep(body.data, delta)]]
       ELSE [s EXCEPT !.objects = spun]

RECURSIVE forEachBody(_, _, _)
forEachBody(s, delta, i) ==
    IF i > Len(s.planets) THEN s
    ELSE forEachBody(updateBody(s, i, delta), delta, i + 1)

\* the camera target fix: copy the Earth's world position to controls.target
retarget(s) ==
    LET earthBody == find(s.planets, "Earth")
    IN IF earthBody # Undefined
       THEN [s EXCEPT !.controls.target = getWorldPosition(s.objects, s.planets[earthBody].mesh)]
       ELSE s

\* controls.update(): one damping step; the camera looks at the target
controlsUpdate(s) ==
    [s EXCEPT !.controls.updates = @ + 1, !.camera.lookAt = s.controls.target]

\* renderer.render(scene, camera): the frame drawn shows every body's mesh
\* at its world position, seen by the camera as it looks now
render(s) ==
    [s EXCEPT !.renderer.frame = @ + 1,
              !.renderer.drawn =
                  [lookAt |-> s.camera.lookAt,
                   world |-> [i \in 1..Len(s.planets) |->
                                 getWorldPosition(s.objects, s.planets[i].mesh)]]]

\* the program's state as one record, and the transition to state s
State == [planets |-> planets, objects |-> objects, camera |-> camera,
          renderer |-> renderer, controls |-> controls, clock |-> clock,
          window |-> window, rafPending |-> rafPending, error |-> error]

Becomes(s) ==
    /\ planets' = s.planets
    /\ objects' = s.objects
    /\ camera' = s.camera
    /\ renderer' = s.renderer
    /\ controls' = s.controls
    /\ clock' = s.clock
    /\ window' = s.window
    /\ rafPending' = s.rafPending
    /\ error' = s.error

\* animate(): the steps of one call, each on the state the step before it
\* left; the call is the transition from s to the state after render
animateTargetFirst(s, hostDelta) ==
    \E s1 \in {requestAnimationFrame(s)} :
    \E s2 \in {tickClock(s1, hostDelta)} :
    \E s3 \in {retarget(s2)} :
    \E s4 \in {forEachBody(s3, getDelta(s1, hostDelta), 1)} :
    \E s5 \in {controlsUpdate(s4)} :
       Becomes(render(s5))

animate(s, hostDelta) ==
    \E s1 \in {requestAnimationFrame(s)} :
    \E s2 \in {tickClock(s1, hostDelta)} :
    \E s3 \in {forEachBody(s2, getDelta(s1, hostDelta), 1)} :
    \E s4 \in {retarget(s3)} :
    \E s5 \in {controlsUpdate(s4)} :
       Becomes(render(s5))

\* -------------------------------------------------------------- resize
onWindowResizeSwapped(s) ==
    [s EXCEPT !.camera.aspect = Ratio(s.window.innerHeight, s.window.innerWidth),
              !.camera.projection = Ratio(s.window.innerHeight, s.window.innerWidth),
              !.renderer.width = s.window.innerWidth,
              !.renderer.height = s.window.innerHeight]
onWindowResize(s) ==
    [s EXCEPT !.camera.aspect = Ratio(s.window.innerWidth, s.window.innerHeight),
              !.camera.projection = Ratio(s.window.innerWidth, s.window.innerHeight),
              !.renderer.width = s.window.innerWidth,
              !.renderer.height = s.window.innerHeight]

\* ------------------------------------------------------- state machine
Dims == 1..MaxDim
Deltas == 0..MaxDelta
RandomDraws == 0..(RandomSteps - 1)

\* the state when window.onload has run init() and is about to call animate()
InitWith(cat) ==
    \E draws \in [1..Len(cat) -> RandomDraws], W \in Dims, H \in Dims :
        LET s == init(cat, draws, W, H)
        IN /\ solarData = cat
           /\ random = draws
           /\ started = FALSE
           /\ lastEvent = "init"
           /\ planets = s.planets
           /\ objects = s.objects
           /\ camera = s.camera
           /\ renderer = s.renderer
           /\ controls = s.controls
           /\ clock = s.clock
           /\ window = s.window
           /\ rafPending = s.rafPending
           /\ error = s.error

Init == InitWith(SolarData)

\* window.onload, after init(): the first, direct call of animate()
OnLoadAnimate ==
    /\ ~started
    /\ ~error
    /\ renderer.frame < MaxTicks
    /\ started' = TRUE
    /\ lastEvent' = "load"
    /\ \E s \in {State} : animate(s, 0)
    /\ UNCHANGED <<solarData, random>>

\* the host runs the pending animation-frame callback, hostDelta seconds
\* after the previous frame
FrameCallback ==
    /\ started
    /\ rafPending > 0
    /\ renderer.frame < MaxTicks
    /\ \E hostDelta \in Deltas :
       \E s \in {[State EXCEPT !.rafPending = @ - 1]} : animate(s, hostDelta)
    /\ lastEvent' = "frame"
    /\ UNCHANGED <<solarData, random, started>>

\* the window is resized to (W, H) and the resize listener runs
Resize ==
    /\ started
    /\ \E W \in Dims, H \in Dims :
       \E s \in {[State EXCEPT !.window = [innerWidth |-> W, innerHeight |-> H]]} :
          \E t \in {onWindowResize(s)} : Becomes(t)
    /\ lastEvent' = "resize"
    /\ UNCHANGED <<solarData, random, started>>

Next == OnLoadAnimate \/ FrameCallback \/ Resize

Spec == Init /\ [][Next]_vars

\* the same program over other catalogs: without the Earth, and with a
\* second planet
Mars == [name |-> "Mars", distance |-> 150, orbitSpeed |-> 10, rotationSpeed |-> 20]
Catalogs == {SolarData, <<Sun>>, <<Sun, Mars>>, <<Sun, Earth, Mars>>}
InitCat == \E cat \in Catalogs : InitWith(cat)
SpecCat == InitCat /\ [][Next]_vars

\* the host delivers every animation frame it was asked for
LiveSpec == Init /\ [][Next]_vars /\ WF_vars(OnLoadAnimate) /\ WF_vars(FrameCallback)


\* ----------------------------------------------- vocabulary of the claims
Bodies == 1..Len(planets)
EarthIdx == find(planets, "Earth")
HalleyIdx == find(planets, "Halley")

\* the descriptor's orbitalDistance is greater than 0 / is 0
Orbits(i) == "distance" \in DOMAIN planets[i].data /\ planets[i].data.distance > 0
ZeroDistance(i) == "distance" \in DOMAIN planets[i].data /\ planets[i].data.distance = 0

\* the revolution angle of the pivot Body i references, now and at construction
PivotAngle(i) == objects[planets[i].orbitGroup].rotY
ConstructionAngle(i) ==
    LET k == CHOOSE k \in 1..Len(solarData) : planets[k].orbitGroup = planets[i].orbitGroup
    IN (random[k] * TwoPi) \div RandomSteps

\* Body i's pivot was created for it: no earlier Body references it
OwnPivot(i) == \A j \in Bodies : j < i => planets[j].orbitGroup # planets[i].orbitGroup

CatalogHasEarth == \E k \in 1..Len(solarData) : solarData[k].name = "Earth"

\* C1: every Body with orbitalDistance > 0 has its pivot at the construction
\* angle plus orbitSpeed * 5 * (the sum of the deltas of all ticks so far),
\* whatever resizes came in between; the Earth's pivot is 0.09 rad on after
\* one second.
C1_RevolutionLinear ==
    /\ \A i \in Bodies :
          Orbits(i) =>
             PivotAngle(i) = ConstructionAngle(i)
                                + planets[i].data.orbitSpeed * 5 * clock.elapsedTime
    /\ (EarthIdx # Undefined /\ clock.elapsedTime = 1) =>
          PivotAngle(EarthIdx) - ConstructionAngle(EarthIdx) = 90

C1_Witness ==
    /\ renderer.frame = 3
    /\ clock.elapsedTime = 3
    /\ lastEvent = "resize"
    /\ EarthIdx # Undefined
    /\ Len(solarData) = 3
    /\ Orbits(EarthIdx)
    /\ PivotAngle(3) = ConstructionAngle(3) + 150
    /\ PivotAngle(EarthIdx) = ConstructionAngle(EarthIdx) + 270

\* C2 (as claimed): every Body whose orbitalDistance is not greater than 0,
\* the Sun and Halley, references a pivot whose angle stays at its
\* construction value.
C2_Original ==
    \A i \in Bodies : ~Orbits(i) => PivotAngle(i) = ConstructionAngle(i)

\* C2 (amended): the Sun's pivot stays at its construction angle; the pivot
\* Halley references is the Earth's, and it is advanced by the Earth's
\* update alone: by the Earth's orbitSpeed * 5 * elapsed time.
C2_Amended ==
    /\ \A i \in Bodies :
          (~Orbits(i) /\ OwnPivot(i)) => PivotAngle(i) = ConstructionAngle(i)
    /\ \A i \in Bodies :
          (~Orbits(i) /\ ~OwnPivot(i)) =>
             /\ planets[i].orbitGroup = planets[EarthIdx].orbitGroup
             /\ PivotAngle(i) = ConstructionAngle(i)
                                   + planets[EarthIdx].data.orbitSpeed * 5 * clock.elapsedTime

C2_Witness ==
    /\ renderer.frame >= 2
    /\ clock.elapsedTime = 2
    /\ HalleyIdx # Undefined
    /\ ~Orbits(HalleyIdx)
    /\ PivotAngle(HalleyIdx) = ConstructionAngle(HalleyIdx) + 180
    /\ \E i \in Bodies : ZeroDistance(i) /\ PivotAngle(i) = ConstructionAngle(i)

\* C3: in every tick the pivot shared by the Earth and Halley is advanced by
\* exactly the Earth's orbitSpeed * 5 * delta; Halley's orbitSpeed adds nothing.
C3_SharedPivotOnce ==
    [][renderer'.frame # renderer.frame =>
          /\ HalleyIdx # Undefined
          /\ planets[HalleyIdx].orbitGroup = planets[EarthIdx].orbitGroup
          /\ objects'[planets[EarthIdx].orbitGroup].rotY - PivotAngle(EarthIdx)
                = planets[EarthIdx].data.orbitSpeed * 5
                     * (clock'.elapsedTime - clock.elapsedTime)]_vars

C3_Witness ==
    /\ lastEvent = "frame"
    /\ clock.elapsedTime = MaxDelta
    /\ renderer.frame = 2
    /\ Cardinality({i \in Bodies : planets[i].orbitGroup = planets[EarthIdx].orbitGroup}) = 2
    /\ PivotAngle(EarthIdx) = ConstructionAngle(EarthIdx) + 18 * 5 * MaxDelta

\* C4: Halley's mesh and the Earth's mesh are children of the same pivot,
\* at local offsets distance + 1.8 and distance, in every state; so both
\* are carried by the same angle.
C4_Lockstep ==
    /\ EarthIdx # Undefined /\ HalleyIdx # Undefined
    /\ LET e == planets[EarthIdx]
           h == planets[HalleyIdx]
       IN /\ objects[e.mesh].parent = e.orbitGroup
          /\ objects[h.mesh].parent = e.orbitGroup
          /\ h.orbitGroup = e.orbitGroup
          /\ objects[e.mesh].px = e.data.distance
          /\ objects[h.mesh].px = e.data.distance + 18
          /\ objects[e.orbitGroup].parent = SceneRoot
          /\ getWorldPosition(objects, h.mesh).theta = getWorldPosition(objects, e.mesh).theta
          /\ getWorldPosition(objects, h.mesh).r = 128

C4_Witness ==
    /\ renderer.frame = 3
    /\ clock.elapsedTime > 0
    /\ objects[planets[HalleyIdx].mesh].px = 128
    /\ objects[planets[EarthIdx].mesh].px = 110
    /\ getWorldPosition(objects, planets[HalleyIdx].mesh).theta
          = ConstructionAngle(EarthIdx) + 90 * clock.elapsedTime

\* C5: the target is the Earth's world position from init on; every frame
\* drawn shows the Earth where this tick's pivot angle puts it, with the
\* camera looking at that very position, after one controls.update per tick.
C5_TargetFresh ==
    /\ EarthIdx # Undefined
    /\ LET earthNow == [r |-> planets[EarthIdx].data.distance,
                        theta |-> ConstructionAngle(EarthIdx)
                                     + planets[EarthIdx].data.orbitSpeed * 5 * clock.elapsedTime]
       IN /\ controls.target = earthNow
          /\ renderer.frame = 0 => clock.elapsedTime = 0 /\ controls.updates = 0
          /\ renderer.frame > 0 =>
                /\ renderer.drawn.world[EarthIdx] = earthNow
                /\ renderer.drawn.lookAt = earthNow
                /\ camera.lookAt = earthNow
                /\ controls.updates = renderer.frame

C5_Witness ==
    /\ renderer.frame = 2
    /\ clock.elapsedTime = 1
    /\ lastEvent = "frame"
    /\ renderer.drawn.lookAt = [r |-> 110, theta |-> ConstructionAngle(EarthIdx) + 90]
    /\ controls.target = renderer.drawn.lookAt

\* C6: the aspect is innerWidth / innerHeight and the viewport is
\* (innerWidth, innerHeight) of the latest size; a resize changes no Body, no
\* pivot, not the registry and not the target; handling a size twice is
\* handling it once.
ResizeOnce(W, H) ==
    onWindowResize([State EXCEPT !.window = [innerWidth |-> W, innerHeight |-> H]])
C6_Resize ==
    /\ [](/\ camera.aspect[1] * window.innerHeight = camera.aspect[2] * window.innerWidth
          /\ renderer.width = window.innerWidth
          /\ renderer.height = window.innerHeight
          /\ \A W \in Dims, H \in Dims : onWindowResize(ResizeOnce(W, H)) = ResizeOnce(W, H))
    /\ [][lastEvent' = "resize" =>
             /\ planets' = planets
             /\ objects' = objects
             /\ controls' = controls
             /\ clock' = clock
             /\ rafPending' = rafPending
             /\ renderer'.frame = renderer.frame
             /\ renderer'.drawn = renderer.drawn
             /\ camera'.lookAt = camera.lookAt]_vars

C6_Witness ==
    /\ lastEvent = "resize"
    /\ renderer.frame = 2
    /\ clock.elapsedTime > 0
    /\ window = [innerWidth |-> 2, innerHeight |-> 2]
    /\ camera.aspect = <<1, 1>>
    /\ renderer.width = 2 /\ renderer.height = 2

\* C7 (as claimed): exactly one Body has orbitalDistance 0, every other Body
\* has a positive orbitalDistance and hangs under a pivot of its own, and the
\* registry is the catalog's Bodies plus one.
C7_Original ==
    /\ Cardinality({i \in Bodies : ZeroDistance(i)}) = 1
    /\ \A i \in Bodies :
          ~ZeroDistance(i) =>
             /\ Orbits(i)
             /\ OwnPivot(i)
             /\ objects[planets[i].mesh].parent = planets[i].orbitGroup
    /\ Len(planets) = Len(solarData) + 1

\* C7 (amended): exactly one Body has orbitalDistance 0; every other Body
\* made from a catalog entry has a positive orbitalDistance and hangs under
\* the pivot made for it; the one decorative Body has no orbitalDistance and
\* hangs under the Earth's pivot; the registry is the catalog in order plus
\* that Body, and never changes.
C7_RegistryShape ==
    Len(planets) = Len(solarData) + 1
    /\ Cardinality({i \in Bodies : ZeroDistance(i)}) = 1
    /\ \A i \in 1..Len(solarData) :
          /\ planets[i].data = solarData[i]
          /\ OwnPivot(i)
          /\ objects[planets[i].mesh].parent = planets[i].orbitGroup
          /\ ~ZeroDistance(i) => Orbits(i)
    /\ LET h == planets[Len(planets)]
       IN /\ h.data.name = "Halley"
          /\ "distance" \notin DOMAIN h.data
          /\ h.orbitGroup = planets[EarthIdx].orbitGroup
          /\ objects[h.mesh].parent = h.orbitGroup
C7_Amended == []C7_RegistryShape /\ [][planets' = planets]_vars

C7_Witness ==
    /\ renderer.frame = MaxTicks
    /\ clock.elapsedTime > 0
    /\ Len(planets) = 3
    /\ planets[1].data.name = "Sun" /\ planets[2].data.name = "Earth"
    /\ planets[3].data.name = "Halley"
    /\ ~OwnPivot(3)

\* C8: over a catalog without the Earth nothing throws, no decorative Body is
\* made, the registry is the catalog, the target stays where the controls
\* were built with it, and every tick still spins and revolves every Body,
\* steps the controls and renders.
C8_NoEarth ==
    ~CatalogHasEarth =>
       /\ ~error
       /\ Len(planets) = Len(solarData)
       /\ \A i \in Bodies : planets[i].data = solarData[i] /\ OwnPivot(i)
       /\ \A k \in 1..Len(objects) :
             objects[k].type = "Mesh" => \E i \in Bodies : planets[i].mesh = k
       /\ controls.target = [r |-> 0, theta |-> 0]
       /\ started => renderer.frame >= 1
       /\ controls.updates = renderer.frame
       /\ renderer.frame > 0 => Len(renderer.drawn.world) = Len(solarData)
       /\ \A i \in Bodies :
             /\ objects[planets[i].mesh].rotY
                   = planets[i].data.rotationSpeed * 5 * clock.elapsedTime
             /\ PivotAngle(i) = ConstructionAngle(i)
                   + (IF Orbits(i) THEN planets[i].data.orbitSpeed * 5 * clock.elapsedTime
                      ELSE 0)

C8_Witness ==
    /\ ~CatalogHasEarth
    /\ Len(solarData) = 2
    /\ renderer.frame = 3
    /\ clock.elapsedTime = 2
    /\ controls.target = Origin
    /\ Orbits(2)
    /\ PivotAngle(2) = ConstructionAngle(2) + 100
    /\ objects[planets[2].mesh].rotY = 200

\* C9: every catalog entry with orbitalDistance > 0 has exactly one orbit
\* ring, a child of the scene root, whose world-space vertices lie in the
\* plane y = 0 on the circle of radius orbitalDistance.
RingsOf(radius) ==
    {k \in 1..Len(objects) :
        /\ objects[k].type = "LineLoop"
        /\ \A n \in 1..Len(objects[k].points) :
              objects[k].points[n][1] * objects[k].points[n][1]
                 + objects[k].points[n][2] * objects[k].points[n][2]
                 + objects[k].points[n][3] * objects[k].points[n][3] = radius * radius}
C9_RingOnOrbit ==
    \A i \in 1..Len(solarData) :
       solarData[i].distance > 0 =>
          /\ Cardinality(RingsOf(solarData[i].distance)) = 1
          /\ \A k \in RingsOf(solarData[i].distance) :
                /\ objects[k].parent = SceneRoot
                /\ \A n \in 1..Len(objects[k].points) :
                      LET v == worldVertices(objects[k])[n]
                      IN /\ v[2] = 0
                         /\ v[1] * v[1] + v[3] * v[3]
                               = solarData[i].distance * solarData[i].distance

\* C10: once animate has started exactly one frame callback is pending in
\* every state, and (the host delivering each frame) every tick below the
\* bound is followed by another.
C10_LoopAlive ==
    /\ [](IF started THEN rafPending = 1 ELSE rafPending = 0)
    /\ [][renderer'.frame # renderer.frame => renderer'.frame = renderer.frame + 1]_vars
    /\ \A n \in 0..(MaxTicks - 1) : (renderer.frame = n) ~> (renderer.frame = n + 1)

C10_Witness ==
    /\ started
    /\ lastEvent = "resize"
    /\ renderer.frame = MaxTicks
    /\ rafPending = 1

=============================================================================
